---- MODULE Spec2Model ----
(***************************************************************************)
(* Playback orchestration of the docc presentation player.                 *)
(*                                                                         *)
(* The module models the AudioService class (audio cache, current audio    *)
(* element, session folder), the useAudioControls / useVideoPlayer hooks   *)
(* and the two VideoPlayer components that drive them:                      *)
(*   Spec     - the hook based VideoPlayer (useVideoPlayer +               *)
(*              useAudioControls),                                         *)
(*   SpecMono - the self-contained VideoPlayer.tsx component.              *)
(*                                                                         *)
(* JavaScript runs one task at a time: every action below is one task of   *)
(* the event loop (a click handler, a timer callback, a settled fetch, a   *)
(* media event) together with the microtasks, the React render and the     *)
(* effects that follow it before the next task can start.                  *)
(* Strings are modelled as sequences of tokens.                            *)
(***************************************************************************)
EXTENDS Integers, Sequences, FiniteSets, Bags, TLC

\* ------------------------------------------------------------------ bounds
MaxAudio == 2      \* audio elements alive or being synthesized at once
MaxTimers == 1     \* auto-advance timers pending at once

\* ------------------------------------------------------- the script document
None == <<>>       \* null / undefined / "" : the falsy values of the source

API_BASE_URL == <<"http", "api">>

\* The documents a presentation is opened with: scriptData of the source.
\* DocSynth has no pre-generated audio at all; DocFiles has a block with both an
\* audio_files entry and a session file, a block with a session file only and a
\* block with neither.
DocSynth ==
  [ script |-> << [markdown |-> <<"t1">>, audio_file |-> None],
                  [markdown |-> <<"t2">>, audio_file |-> None],
                  [markdown |-> <<"t1">>, audio_file |-> None] >>,
    audio_files |-> None ]

DocFiles ==
  [ script |-> << [markdown |-> <<"t1">>, audio_file |-> <<"f1.mp3">>],
                  [markdown |-> <<"t2">>, audio_file |-> <<"f2.mp3">>],
                  [markdown |-> <<"t2">>, audio_file |-> None] >>,
    audio_files |-> << <<"http", "host", "a.mp3">>, None, None >> ]

Documents == {DocSynth, DocFiles}

\* A presentation with pre-generated audio for its first two blocks: playing them
\* makes no request.
DocUrls ==
  [ script |-> << [markdown |-> <<"t1">>, audio_file |-> None],
                  [markdown |-> <<"t2">>, audio_file |-> None],
                  [markdown |-> <<"t1">>, audio_file |-> None] >>,
    audio_files |-> << <<"http", "host", "a.mp3">>, <<"http", "host", "b.mp3">>, None >> ]

Folders == { <<"s1">> }

\* scriptData.script.length
scriptLength(s) == Len(s.doc.script)

hasBlock(s, i) == i >= 0 /\ i < scriptLength(s)

\* scriptData.script[i] || null, i counted from 0
getCurrentBlock(s, i) ==
  IF hasBlock(s, i) THEN s.doc.script[i + 1] ELSE [markdown |-> None, audio_file |-> None]

\* scriptData.audio_files && scriptData.audio_files[i]
audioFileUrl(s, i) ==
  IF i >= 0 /\ i < Len(s.doc.audio_files) THEN s.doc.audio_files[i + 1] ELSE None

\* ------------------------------------------------------------------- state
VARIABLES
  mounted,            \* the player component is mounted
  scriptData,         \* the scriptData prop: the document being presented
  currentBlockIndex,  \* useVideoPlayer.currentBlockIndex / videoState.currentBlock
  isPlaying, isPaused, isLoading, error,   \* controller flags
  shouldAutoPlay,     \* the one-shot auto-play intent
  autoPlay,           \* the Auto-play checkbox
  playbackSpeed,      \* useVideoPlayer.playbackSpeed / videoState.playbackSpeed
  sessionFolder,      \* the sessionFolder prop of the player
  svcSessionFolder,   \* AudioService.sessionFolder
  audioCache,         \* AudioService.audioCache : key -> element
  currentAudio,       \* AudioService.currentAudio (0 = null)
  audios,             \* the HTMLAudioElements created so far
  fetches,            \* bag of ApiService.generateAudio calls in flight
  timers,             \* bag of pending setTimeout callbacks
  lastRes,            \* history: the last resolution play() asked for
  fired,              \* history: the last auto-advance timer that fired
  lastEnd,            \* history: the end-of-resource event of the last task
  lastOp              \* history: the name of the last task

vars == << mounted, scriptData, currentBlockIndex, isPlaying, isPaused, isLoading, error, shouldAutoPlay,
           autoPlay, playbackSpeed, sessionFolder, svcSessionFolder, audioCache, currentAudio,
           audios, fetches, timers, lastRes, fired, lastEnd, lastOp >>

\* The state as one record, so that a handler is a function from state to state.
St ==
  [ mounted |-> mounted, doc |-> scriptData, idx |-> currentBlockIndex, isPlaying |-> isPlaying, isPaused |-> isPaused,
    isLoading |-> isLoading, error |-> error, shouldAutoPlay |-> shouldAutoPlay,
    autoPlay |-> autoPlay, speed |-> playbackSpeed, folder |-> sessionFolder, svcFolder |-> svcSessionFolder,
    cache |-> audioCache, currentAudio |-> currentAudio, audio |-> audios,
    fetches |-> fetches, timers |-> timers, lastRes |-> lastRes, fired |-> fired,
    lastEnd |-> lastEnd, lastOp |-> lastOp ]

Commit(s) ==
  /\ mounted' = s.mounted
  /\ scriptData' = s.doc
  /\ currentBlockIndex' = s.idx
  /\ isPlaying' = s.isPlaying
  /\ isPaused' = s.isPaused
  /\ isLoading' = s.isLoading
  /\ error' = s.error
  /\ shouldAutoPlay' = s.shouldAutoPlay
  /\ autoPlay' = s.autoPlay
  /\ playbackSpeed' = s.speed
  /\ sessionFolder' = s.folder
  /\ svcSessionFolder' = s.svcFolder
  /\ audioCache' = s.cache
  /\ currentAudio' = s.currentAudio
  /\ audios' = s.audio
  /\ fetches' = s.fetches
  /\ timers' = s.timers
  /\ lastRes' = s.lastRes
  /\ fired' = s.fired
  /\ lastEnd' = s.lastEnd
  /\ lastOp' = s.lastOp

\* The bounds: what a step may leave behind.  The presentation DocUrls, which
\* needs few elements, is followed with one more pending timer.
Fits(s) ==
  /\ Len(s.audio) + BagCardinality(s.fetches) <= MaxAudio
  /\ BagCardinality(s.timers) <= (IF s.doc = DocUrls THEN MaxTimers + 1 ELSE MaxTimers)

\* the playback rates the speed selector offers (two of them), 1.0 being the default
Speeds == {"1.0", "2.0"}
DefaultSpeed == "1.0"

NoListener == [idx |-> -1, auto |-> FALSE, live |-> FALSE, speed |-> DefaultSpeed]
NoRes == [idx |-> -1, path |-> "none", folder |-> None, hit |-> FALSE, fetched |-> FALSE,
          handle |-> 0, had |-> FALSE]
NoTimer == [from |-> -1, stopped |-> FALSE, played |-> FALSE]
NoEnd == [idx |-> -1, current |-> FALSE, complete |-> FALSE]

\* the player right after it is mounted with one of docs
Opened(docs) ==
  /\ mounted = TRUE
  /\ scriptData \in docs
  /\ currentBlockIndex = 0
  /\ isPlaying = FALSE
  /\ isPaused = FALSE
  /\ isLoading = FALSE
  /\ error = FALSE
  /\ shouldAutoPlay = FALSE
  /\ autoPlay = TRUE
  /\ playbackSpeed = DefaultSpeed
  /\ sessionFolder \in {None} \cup Folders
  /\ svcSessionFolder = sessionFolder
  /\ audioCache = <<>>
  /\ currentAudio = 0
  /\ audios = <<>>
  /\ fetches = EmptyBag
  /\ timers = EmptyBag
  /\ lastRes = NoRes
  /\ fired = NoTimer
  /\ lastEnd = NoEnd
  /\ lastOp = "init"

Init == Opened(Documents)

\* ------------------------------------------------------------ AudioService
\* An element produces output from play() until pause(), the end or a reset.
\* Its position (time) is where play() would go on from: "start" after creation,
\* after a reset to 0 and after the element played to its end (play() then starts
\* over), "mid" once play() moved it on; from is the position at which its last
\* play() started output (history).
Sounding(a) == {h \in 1..Len(a) : ~a[h].paused}

cacheHas(s, key) == key \in DOMAIN s.cache

getCacheSize(s) == Cardinality(DOMAIN s.cache)

\* AudioService.isPlaying
svcIsPlaying(s) == IF s.currentAudio # 0 THEN ~s.audio[s.currentAudio].paused ELSE FALSE

stopCurrentAudioEvicts(s) ==
  IF s.currentAudio # 0
  THEN [s EXCEPT !.audio[s.currentAudio].paused = TRUE,
                 !.audio[s.currentAudio].time = "start",
                 !.cache = [k \in {j \in DOMAIN s.cache : s.cache[j] # s.currentAudio}
                              |-> s.cache[k]],
                 !.currentAudio = 0]
  ELSE s

stopCurrentAudio(s) ==
  IF s.currentAudio # 0
  THEN [s EXCEPT !.audio[s.currentAudio].paused = TRUE,
                 !.audio[s.currentAudio].time = "start",
                 !.currentAudio = 0]
  ELSE s

\* AudioService.setPlaybackSpeed
setPlaybackSpeed(s, speed) ==
  IF s.currentAudio # 0 THEN [s EXCEPT !.audio[s.currentAudio].rate = speed] ELSE s

pauseCurrentAudio(s) ==
  IF s.currentAudio # 0 /\ ~s.audio[s.currentAudio].paused
  THEN [s EXCEPT !.audio[s.currentAudio].paused = TRUE]
  ELSE s

\* history: a synthesis request issued before a cache clear
staleFetch(task) == [task EXCEPT !.stale = TRUE]

\* clearCache drops every entry; the elements it dropped, and the requests still
\* in flight, are marked stale (history)
clearCache(s) ==
  LET s1 == stopCurrentAudio(s)
  IN [s1 EXCEPT !.cache = <<>>,
                !.audio = [h \in DOMAIN s1.audio |-> [s1.audio[h] EXCEPT !.stale = TRUE]],
                !.fetches = BagOfAll(staleFetch, @)]

setSessionFolder(s, f) == clearCache([s EXCEPT !.svcFolder = f])

\* new Audio(url); audio.preload = 'auto'
newAudio(s, src) ==
  [s EXCEPT !.audio = Append(@, [src |-> src, stale |-> FALSE, failed |-> FALSE,
                                 paused |-> TRUE,
                                 time |-> "start", from |-> "start",
                                 rate |-> DefaultSpeed, onended |-> NoListener])]

cacheSet(s, key, h) ==
  [s EXCEPT !.cache = [k \in DOMAIN s.cache \cup {key} |-> IF k = key THEN h ELSE s.cache[k]]]

\* audio.playbackRate = playbackSpeed; this.currentAudio = audio;
\* audio.onended = ...; audio.play()
\* l is the play() call whose promise the element's callbacks settle; the
\* playbackSpeed argument is the value that call was given.
\* HTMLMediaElement.play() goes on from the element's position.
startAudio(s, h, l) ==
  [s EXCEPT !.currentAudio = h,
            !.audio[h].onended = l,
            !.audio[h].rate = l.speed,
            !.audio[h].paused = FALSE,
            !.audio[h].from = s.audio[h].time,
            !.audio[h].time = "mid"]

\* audioUrl.startsWith('http') ? audioUrl : `${API_BASE_URL}${audioUrl}`
fullAudioUrl(url) == IF url[1] = "http" THEN url ELSE API_BASE_URL \o url

cacheKeyOneEntry(text) == <<"narration">>

\* const cacheKey = text
cacheKey(text) == text

\* `/sessions/${this.sessionFolder}/audio/${audioFileName}`
sessionAudioUrl(s, audioFileName) == <<"sessions">> \o s.svcFolder \o <<"audio">> \o audioFileName

\* ApiService.generateAudio + getAudioUrl: the backend names the audio after the text
ttsAudioUrl(text) == <<"http", "api", "audio">> \o text

\* The element a resolution yields, taken from the cache or created and cached.
cachedOrNew(s, key, src) ==
  IF cacheHas(s, key) THEN s
  ELSE cacheSet(newAudio(s, src), key, Len(s.audio) + 1)

playAudioFromUrl(s, url, l) ==
  LET s1 == stopCurrentAudio(s)
      key == fullAudioUrl(url)
      s2 == cachedOrNew(s1, key, key)
  IN startAudio(s2, s2.cache[key], l)

sessionRejectsNever(s) == FALSE

\* loadAudioFromSession throws when no session folder is set
sessionRejects(s) == s.svcFolder = None

playAudioFromSession(s, audioFileName, l) ==
  LET s1 == stopCurrentAudio(s)
      s2 == cachedOrNew(s1, audioFileName, sessionAudioUrl(s1, audioFileName))
  IN IF sessionRejects(s) THEN s1 ELSE startAudio(s2, s2.cache[audioFileName], l)

\* playAudio up to the point where generateAndCacheAudio waits for the backend;
\* a cache hit goes on to start the element within the same task.
playAudio(s, text, l) ==
  LET s1 == stopCurrentAudio(s)
      key == cacheKey(text)
  IN IF cacheHas(s1, key)
     THEN startAudio(s1, s1.cache[key], l)
     ELSE [s1 EXCEPT !.fetches = @ (+) SetToBag({[text |-> text, l |-> l, stale |-> FALSE]})]

\* generateAndCacheAudio after the backend answered, and the rest of playAudio
generateAndCacheAudioDone(s, task) ==
  LET h == Len(s.audio) + 1
      s1 == cacheSet(newAudio(s, ttsAudioUrl(task.text)), cacheKey(task.text), h)
  IN startAudio([s1 EXCEPT !.audio[h].stale = task.stale], h, task.l)


\* ------------------------------------------- history kept for the properties
\* some cached element was synthesized from this narration text
hadSynth(s, text) == \E k \in DOMAIN s.cache : s.audio[s.cache[k]].src = ttsAudioUrl(text)

\* What play() did to resolve the block at before.idx: the path it took, whether it
\* asked the backend (fetched), the element it started (handle), and whether that
\* element came out of the cache (hit).
noteRes(s, before, path) ==
  LET fetched == BagCardinality(s.fetches) > BagCardinality(before.fetches)
      created == Len(s.audio) > Len(before.audio)
  IN [s EXCEPT !.lastRes = [idx |-> before.idx, path |-> path, folder |-> before.folder,
                            hit |-> ~fetched /\ ~created /\ s.currentAudio # 0,
                            fetched |-> fetched,
                            handle |-> s.currentAudio,
                            had |-> hadSynth(before,
                                             getCurrentBlock(before, before.idx).markdown)]]

\* stop() was called while these timers were pending
markStopped(s) ==
  [s EXCEPT !.timers = LET old == @ IN
       IF old = EmptyBag THEN old
       ELSE LET ts == BagToSet(old)
                f(t) == [t EXCEPT !.stopped = TRUE]
            IN [u \in {f(t) : t \in ts} |->
                  LET src == {t \in ts : f(t) = u}
                      a == [from |-> u.from, stopped |-> FALSE]
                      b == [from |-> u.from, stopped |-> TRUE]
                  IN (IF a \in src THEN old[a] ELSE 0) + (IF b \in src THEN old[b] ELSE 0)]]

\* --------------------------------------------------- useVideoPlayer (hooks)
goToPrevious(s) ==
  [s EXCEPT !.idx = IF @ - 1 > 0 THEN @ - 1 ELSE 0, !.shouldAutoPlay = FALSE]

goToNext(s) ==
  [s EXCEPT !.idx = IF @ + 1 < scriptLength(s) - 1 THEN @ + 1 ELSE scriptLength(s) - 1,
            !.shouldAutoPlay = FALSE]

goToStart(s) == [s EXCEPT !.idx = 0, !.shouldAutoPlay = FALSE]

triggerAutoPlay(s) == [s EXCEPT !.shouldAutoPlay = TRUE]

clearAutoPlay(s) == [s EXCEPT !.shouldAutoPlay = FALSE]

\* ------------------------------------------------- useAudioControls (hooks)
resolutionPathSessionFirst(s) ==
  IF s.folder # None /\ getCurrentBlock(s, s.idx).audio_file # None THEN "session"
  ELSE IF audioFileUrl(s, s.idx) # None THEN "url"
  ELSE "synth"

resolutionPathNoSession(s) ==
  IF audioFileUrl(s, s.idx) # None THEN "url" ELSE "synth"

\* The source play() picks for the block at s.idx (lines 52-62).
resolutionPath(s) ==
  IF audioFileUrl(s, s.idx) # None THEN "url"
  ELSE IF s.folder # None /\ getCurrentBlock(s, s.idx).audio_file # None THEN "session"
  ELSE "synth"

playRejectedClearsCache(s) ==
  clearCache([s EXCEPT !.error = TRUE, !.isPlaying = FALSE, !.isPaused = FALSE,
                       !.isLoading = FALSE])

\* catch + finally of play()
playRejected(s) ==
  [s EXCEPT !.error = TRUE, !.isPlaying = FALSE, !.isPaused = FALSE, !.isLoading = FALSE]

handleBlockCompleteAtLastToo(s, l) ==
  IF l.auto /\ l.idx <= scriptLength(s) - 1
  THEN [s EXCEPT !.timers = @ (+) SetToBag({[from |-> l.idx, stopped |-> FALSE]})]
  ELSE s

\* VideoPlayer.handleBlockComplete, with the autoPlay and index its closure holds
handleBlockComplete(s, l) ==
  IF l.auto /\ l.idx < scriptLength(s) - 1
  THEN [s EXCEPT !.timers = @ (+) SetToBag({[from |-> l.idx, stopped |-> FALSE]})]
  ELSE s

\* play() after its await resolved: lines 64-66 and the finally
\* (lastEnd.complete: onBlockComplete was called, history)
playResolved(s, l) ==
  [handleBlockComplete([s EXCEPT !.isPlaying = FALSE, !.isPaused = FALSE], l)
     EXCEPT !.isLoading = FALSE, !.lastEnd.complete = TRUE]

\* play() from line 45 up to its await, with the AudioService method its if/else
\* (52-62) calls given as path
playVia(s, path) ==
       LET l == [idx |-> s.idx, auto |-> s.autoPlay, live |-> TRUE, speed |-> s.speed]
           blk == getCurrentBlock(s, s.idx)
           s0 == [s EXCEPT !.isLoading = TRUE, !.error = FALSE,
                           !.isPlaying = TRUE, !.isPaused = FALSE]
       IN CASE path = "url" ->
                 noteRes(playAudioFromUrl(s0, audioFileUrl(s, s.idx), l), s0, "url")
            [] path = "session" ->
                 LET s1 == noteRes(playAudioFromSession(s0, blk.audio_file, l), s0,
                                   "session")
                 IN IF sessionRejects(s0) THEN playRejected(s1) ELSE s1
            [] OTHER ->
                 noteRes(playAudio(s0, blk.markdown, l), s0, "synth")

\* play() up to its await
play(s) ==
  IF ~hasBlock(s, s.idx) \/ s.isPlaying THEN s ELSE playVia(s, resolutionPath(s))

pause(s) == [pauseCurrentAudio(s) EXCEPT !.isPlaying = FALSE, !.isPaused = TRUE]

stop(s) ==
  [markStopped(stopCurrentAudio(s))
     EXCEPT !.isPlaying = FALSE, !.isPaused = FALSE, !.isLoading = FALSE, !.error = FALSE]

autoPlayEffectKeepsIntent(s) ==
  IF s.shouldAutoPlay /\ ~s.isPlaying THEN play(s) ELSE s

\* the auto-play effect of VideoPlayer: runs after every render
autoPlayEffect(s) ==
  IF s.shouldAutoPlay /\ ~s.isPlaying THEN play(clearAutoPlay(s)) ELSE s

named(s, op) == [s EXCEPT !.lastOp = op]

\* The state a task starts from: the history of the previous task is dropped.
Begin == [St EXCEPT !.lastRes = NoRes, !.fired = NoTimer, !.lastEnd = NoEnd]

\* Elements nothing refers to any more (not cached, not current, silent) are
\* garbage: no code path can reach them. They are dropped and the rest renumbered.
live(s) ==
  {h \in 1..Len(s.audio) :
     \/ h = s.currentAudio
     \/ ~s.audio[h].paused
     \/ \E k \in DOMAIN s.cache : s.cache[k] = h}

\* The kept elements are renumbered in the order of their creation.
rank(L, h) == Cardinality({g \in L : g <= h})

\* The callbacks and the rate of a silent element have no effect before startAudio
\* replaces them (nothing resumes an element but startAudio), so they are
\* normalised away.
settled(a) ==
  IF a.paused
  THEN [a EXCEPT !.onended = NoListener, !.from = "start", !.rate = DefaultSpeed]
  ELSE a

collect(s) ==
  LET L == live(s)
      pick(i) == CHOOSE h \in L : rank(L, h) = i
  IN [s EXCEPT !.audio = [i \in 1..Cardinality(L) |-> settled(s.audio[pick(i)])],
               !.cache = [k \in DOMAIN s.cache |-> rank(L, s.cache[k])],
               !.currentAudio = IF @ = 0 THEN 0 ELSE rank(L, @),
               !.lastRes.handle = IF @ \in L THEN rank(L, @) ELSE 0]

Do(n) == \E v \in {n} : \E m \in {collect(v)} : Fits(m) /\ Commit(m)

\* onended of element h: the element stops, the service forgets it, the promise of
\* the play() call that started it resolves
audioEnded(s, h) ==
  LET l == s.audio[h].onended
      s1 == [s EXCEPT !.audio[h].paused = TRUE, !.audio[h].time = "start",
                      !.audio[h].onended.live = FALSE,
                      !.currentAudio = 0,
                      !.lastEnd = [idx |-> l.idx, current |-> s.currentAudio = h,
                                   complete |-> FALSE]]
  IN [s1 |-> s1, l |-> l]

\* ---------------------------------------------------------------- actions
\* play() tests its own guard (line 43): called while isPlaying it returns at once
Play == Do(named(autoPlayEffect(play(Begin)), "play"))

Pause ==
  /\ isPlaying
  /\ Do(named(autoPlayEffect(pause(Begin)), "pause"))

HandleStop == Do(named(autoPlayEffect(goToStart(stop(Begin))), "handleStop"))

HandlePrevious == Do(named(autoPlayEffect(goToPrevious(stop(Begin))), "handlePrevious"))

HandleNext == Do(named(autoPlayEffect(goToNext(stop(Begin))), "handleNext"))

\* the sessionFolder prop changes to another folder: the effect runs again, its
\* cleanup first, then its body
SessionFolderEffect(f) ==
  /\ f # sessionFolder
  /\ Do(named(setSessionFolder(stopCurrentAudio([Begin EXCEPT !.folder = f]), f),
           "setSessionFolder"))

TimerFire(t) ==
  /\ BagIn(t, timers)
  /\ LET s1 == [Begin EXCEPT !.timers = @ (-) SetToBag({t})]
         s2 == triggerAutoPlay(goToNext(s1))
         s3 == [s2 EXCEPT !.fired = [from |-> t.from, stopped |-> t.stopped,
                                     played |-> ~s2.isPlaying /\ hasBlock(s2, s2.idx)]]
     IN Do(named(autoPlayEffect(s3), "timer"))

FetchOk(task) ==
  /\ BagIn(task, fetches)
  /\ LET s1 == [Begin EXCEPT !.fetches = @ (-) SetToBag({task})]
     IN Do(named(generateAndCacheAudioDone(s1, task), "fetchOk"))

FetchFail(task) ==
  /\ BagIn(task, fetches)
  /\ LET s1 == [Begin EXCEPT !.fetches = @ (-) SetToBag({task})]
     IN Do(named(autoPlayEffect(playRejected(s1)), "fetchFail"))

Ended(h) ==
  /\ h \in Sounding(audios)
  /\ LET r == audioEnded(Begin, h)
     IN Do(named(autoPlayEffect(IF r.l.live THEN playResolved(r.s1, r.l) ELSE r.s1),
                 "ended"))

Next ==
  \/ Play
  \/ Pause
  \/ HandleStop
  \/ HandlePrevious
  \/ HandleNext
  \/ \E f \in Folders : SessionFolderEffect(f)
  \/ \E t \in BagToSet(timers) : TimerFire(t)
  \/ \E task \in BagToSet(fetches) : FetchOk(task)
  \/ \E task \in BagToSet(fetches) : FetchFail(task)
  \/ \E h \in 1..Len(audios) : Ended(h)

Spec == Init /\ [][Next]_vars

\* The viewer picks a playback speed: the state changes and the speed effect hands
\* the new value to the AudioService.
SetPlaybackSpeed(r) ==
  /\ r # playbackSpeed
  /\ Do(named(autoPlayEffect(setPlaybackSpeed([Begin EXCEPT !.speed = r], r)),
              "setPlaybackSpeed"))

NextRate == Next \/ \E r \in Speeds : SetPlaybackSpeed(r)

\* the hook based player with the speed selector in use
SpecRate == Init /\ [][NextRate]_vars

\* The viewer ticks or unticks the Auto-play checkbox.
SetAutoPlay ==
  Do(named(autoPlayEffect([Begin EXCEPT !.autoPlay = ~@]), "setAutoPlay"))

NextAuto == Next \/ SetAutoPlay

\* the hook based player with the Auto-play checkbox in use
SpecAuto == Init /\ [][NextAuto]_vars

\* the hook based player opened with DocUrls
InitUrls == Opened({DocUrls})

SpecUrls == InitUrls /\ [][Next]_vars

\* ----------------------------------------------- teardown (SpecTeardown)
\* The player unmounts: React runs the cleanup of the session effect, the only
\* cleanup the player has.  The component's state is gone afterwards: a state
\* setter called by a callback that is still pending does nothing.  The
\* AudioService, its elements, the pending requests and the pending timers live
\* on in the closures that hold them.
Unmount ==
  /\ mounted
  /\ Do(named([stopCurrentAudio(Begin) EXCEPT !.mounted = FALSE], "unmount"))

\* a timer fires after the unmount: goToNext and triggerAutoPlay set nothing
UnmountedTimerFire(t) ==
  /\ ~mounted
  /\ BagIn(t, timers)
  /\ LET s1 == [Begin EXCEPT !.timers = @ (-) SetToBag({t})]
     IN Do(named([s1 EXCEPT !.fired = [from |-> t.from, stopped |-> t.stopped,
                                       played |-> FALSE]], "timer"))

\* a request fails after the unmount: the catch and finally of play() set nothing
UnmountedFetchFail(task) ==
  /\ ~mounted
  /\ BagIn(task, fetches)
  /\ Do(named([Begin EXCEPT !.fetches = @ (-) SetToBag({task})], "fetchFail"))

\* an element ends after the unmount: lines 64-65 of play() set nothing, line 66
\* calls the handleBlockComplete the call closed over
UnmountedEnded(h) ==
  /\ ~mounted
  /\ h \in Sounding(audios)
  /\ LET r == audioEnded(Begin, h)
     IN Do(named(IF r.l.live
                 THEN [handleBlockComplete(r.s1, r.l) EXCEPT !.lastEnd.complete = TRUE]
                 ELSE r.s1, "ended"))

\* before the unmount the player acts as in Spec; a request that settles after it
\* goes on in playAudio as before (FetchOk touches the service only)
NextTeardown ==
  \/ mounted /\ Next
  \/ Unmount
  \/ \E t \in BagToSet(timers) : UnmountedTimerFire(t)
  \/ ~mounted /\ \E task \in BagToSet(fetches) : FetchOk(task)
  \/ \E task \in BagToSet(fetches) : UnmountedFetchFail(task)
  \/ \E h \in 1..Len(audios) : UnmountedEnded(h)

SpecTeardown == Init /\ [][NextTeardown]_vars

\* -------------------------------------------- unattended run (SpecUnattended)
\* The hook based player left alone after play() at index 0: before that play()
\* the viewer may navigate and the session folder may arrive; from then on only
\* the backend, the media elements and the timers act, every request is answered
\* and every element plays to its end.
DocOne ==
  [ script |-> << [markdown |-> <<"t1">>, audio_file |-> None] >>,
    audio_files |-> None ]

\* block 0 has an audio_files entry, block 1 a session file
DocTwo ==
  [ script |-> << [markdown |-> <<"t1">>, audio_file |-> None],
                  [markdown |-> <<"t2">>, audio_file |-> <<"f2.mp3">>] >>,
    audio_files |-> << <<"http", "host", "a.mp3">>, None >> ]

\* the presentations followed here need no more than MaxAudio elements
Unattended == {DocSynth, DocOne, DocTwo}

\* nothing has been played yet
Pristine == audios = <<>> /\ fetches = EmptyBag /\ timers = EmptyBag

InitUnattended == Opened(Unattended)

NextUnattended ==
  \/ Pristine /\ HandlePrevious
  \/ Pristine /\ HandleNext
  \/ Pristine /\ \E f \in Folders : SessionFolderEffect(f)
  \/ Pristine /\ \E r \in Speeds : SetPlaybackSpeed(r)
  \/ Pristine /\ currentBlockIndex = 0 /\ Play
  \/ \E t \in BagToSet(timers) : TimerFire(t)
  \/ \E task \in BagToSet(fetches) : FetchOk(task)
  \/ \E h \in 1..Len(audios) : Ended(h)

SpecUnattended == InitUnattended /\ [][NextUnattended]_vars

\* timers fire, the backend answers, a playing element reaches its end
FairUnattended ==
  /\ WF_vars(\E t \in BagToSet(timers) : TimerFire(t))
  /\ WF_vars(\E task \in BagToSet(fetches) : FetchOk(task))
  /\ WF_vars(\E h \in 1..Len(audios) : Ended(h))

SpecUnattendedFair == SpecUnattended /\ FairUnattended

\* ------------------------------------------------ useAutoPlay (SpecAutoPlayHook)
\* The hook is imported by no component of the repository.  It is followed on its
\* own: a component renders it with the props enabled (autoPlay), currentBlock,
\* totalBlocks and isPlaying taken from its state, and with goToNext and
\* triggerAutoPlay as onNext and onAutoPlayNext.  The only state of the hook is
\* the timer of its effect.

\* shouldAutoAdvance()
shouldAutoAdvance(s) == s.autoPlay /\ s.idx < scriptLength(s) - 1

\* The effect (26-35) after the render that follows before -> s: when a dependency
\* changed (isPlaying, or shouldAutoAdvance through enabled, currentBlock,
\* totalBlocks) the cleanup clears the timer and the body may set a new one.
\* first: the render is the mount.
useAutoPlayEffect(before, s, first) ==
  IF \/ first
     \/ s.isPlaying # before.isPlaying
     \/ s.autoPlay # before.autoPlay
     \/ s.idx # before.idx
  THEN [s EXCEPT !.timers =
          IF ~s.isPlaying /\ shouldAutoAdvance(s)
          THEN SetToBag({[from |-> s.idx, stopped |-> FALSE]})
          ELSE EmptyBag]
  ELSE s

HookDo(n, first) == Do(useAutoPlayEffect(St, n, first))

\* the effects of the first render
HookMount ==
  /\ lastOp = "init"
  /\ HookDo(named(Begin, "mount"), TRUE)

\* the owner starts playback
HookPlay ==
  /\ lastOp # "init" /\ ~isPlaying
  /\ HookDo(named([Begin EXCEPT !.isPlaying = TRUE, !.isPaused = FALSE, !.error = FALSE],
                  "play"), FALSE)

HookPause ==
  /\ lastOp # "init" /\ isPlaying
  /\ HookDo(named([Begin EXCEPT !.isPlaying = FALSE, !.isPaused = TRUE], "pause"), FALSE)

HookStop ==
  /\ lastOp # "init"
  /\ HookDo(named([Begin EXCEPT !.isPlaying = FALSE, !.isPaused = FALSE, !.error = FALSE],
                  "stop"), FALSE)

\* the playback fails
HookFail ==
  /\ lastOp # "init" /\ isPlaying
  /\ HookDo(named([Begin EXCEPT !.isPlaying = FALSE, !.isPaused = FALSE, !.error = TRUE],
                  "fetchFail"), FALSE)

\* the block plays to its end
HookEnded ==
  /\ lastOp # "init" /\ isPlaying
  /\ HookDo(named([Begin EXCEPT !.isPlaying = FALSE, !.isPaused = FALSE,
                                !.lastEnd = [idx |-> currentBlockIndex, current |-> TRUE,
                                             complete |-> TRUE]],
                  "ended"), FALSE)

\* the viewer ticks or unticks the Auto-play checkbox
HookSetEnabled ==
  /\ lastOp # "init"
  /\ HookDo(named([Begin EXCEPT !.autoPlay = ~@], "setAutoPlay"), FALSE)

\* the timer of the effect fires: onNext(); onAutoPlayNext(); the owner then plays
\* the new block
HookTimerFire(t) ==
  /\ BagIn(t, timers)
  /\ LET s1 == [Begin EXCEPT !.timers = @ (-) SetToBag({t})]
         s2 == clearAutoPlay([triggerAutoPlay(goToNext(s1))
                                EXCEPT !.isPlaying = TRUE, !.isPaused = FALSE])
     IN HookDo(named([s2 EXCEPT !.fired = [from |-> t.from, stopped |-> t.stopped,
                                           played |-> TRUE]], "timer"), FALSE)

NextAutoPlayHook ==
  \/ HookMount
  \/ HookPlay
  \/ HookPause
  \/ HookStop
  \/ HookFail
  \/ HookEnded
  \/ HookSetEnabled
  \/ \E t \in BagToSet(timers) : HookTimerFire(t)

SpecAutoPlayHook == Init /\ [][NextAutoPlayHook]_vars

\* --------------------------------------------- media errors (SpecMediaError)
\* onerror of element h (224-229, 283-286): the element cannot be loaded or
\* decoded, or its play() promise rejects.  Output stops, the service forgets the
\* element, and the promise of the play() call that started it rejects.
audioFailed(s, h) ==
  LET l == s.audio[h].onended
      s1 == [s EXCEPT !.audio[h].paused = TRUE, !.audio[h].failed = TRUE,
                      !.audio[h].onended.live = FALSE,
                      !.currentAudio = 0,
                      !.lastEnd = [idx |-> l.idx, current |-> s.currentAudio = h,
                                   complete |-> FALSE]]
  IN [s1 |-> s1, l |-> l]

MediaError(h) ==
  /\ h \in Sounding(audios)
  /\ LET r == audioFailed(Begin, h)
     IN Do(named(autoPlayEffect(IF r.l.live THEN playRejected(r.s1) ELSE r.s1),
                 "mediaError"))

NextMediaError == Next \/ \E h \in 1..Len(audios) : MediaError(h)

\* the hook based player with elements that may fail
SpecMediaError == Init /\ [][NextMediaError]_vars


\* ------------------------------------------------ VideoPlayer.tsx (SpecMono)
\* The component keeps its own state and calls the AudioService itself.  Its
\* handlePlay is play() of useAudioControls line for line: the same guard, the
\* same choice of source, the same catch and finally; on completion it sets the
\* timer itself.

\* the setTimeout callback of handlePlay: no clamp
monoTimerCallback(s) == [s EXCEPT !.idx = @ + 1, !.shouldAutoPlay = TRUE]

monoHandlePause(s) == [pauseCurrentAudio(s) EXCEPT !.isPlaying = FALSE, !.isPaused = TRUE]

monoHandleStop(s) ==
  [markStopped(stopCurrentAudio(s))
     EXCEPT !.isPlaying = FALSE, !.isPaused = FALSE, !.idx = 0, !.shouldAutoPlay = FALSE,
            !.isLoading = FALSE, !.error = FALSE]

monoHandlePrevious(s) ==
  [stopCurrentAudio(s)
     EXCEPT !.idx = IF @ - 1 > 0 THEN @ - 1 ELSE 0,
            !.isPlaying = FALSE, !.isPaused = FALSE, !.isLoading = FALSE]

monoHandleNext(s) ==
  [stopCurrentAudio(s)
     EXCEPT !.idx = IF @ + 1 < scriptLength(s) - 1 THEN @ + 1 ELSE scriptLength(s) - 1,
            !.isPlaying = FALSE, !.isPaused = FALSE, !.isLoading = FALSE]

\* the auto-play effect of VideoPlayer.tsx: runs after a render in which
\* shouldAutoPlay or currentBlock changed
monoAutoPlayEffect(before, s) ==
  IF (s.shouldAutoPlay # before.shouldAutoPlay \/ s.idx # before.idx)
     /\ s.shouldAutoPlay /\ ~s.isPlaying
  THEN play(clearAutoPlay(s))
  ELSE s

MonoDo(n) == Do(monoAutoPlayEffect(St, n))

\* The actions are the handlers; the disabled attributes of the buttons are not
\* part of them (with them the pause button of this component is never enabled:
\* isAudioLoading stays true for as long as isPlaying does).
MonoHandlePlay == MonoDo(named(play(Begin), "play"))

MonoHandlePause ==
  /\ isPlaying
  /\ MonoDo(named(monoHandlePause(Begin), "pause"))

MonoHandleStop == MonoDo(named(monoHandleStop(Begin), "handleStop"))

MonoHandlePrevious == MonoDo(named(monoHandlePrevious(Begin), "handlePrevious"))

MonoHandleNext == MonoDo(named(monoHandleNext(Begin), "handleNext"))

MonoTimerFire(t) ==
  /\ BagIn(t, timers)
  /\ LET s1 == [Begin EXCEPT !.timers = @ (-) SetToBag({t})]
         s2 == monoTimerCallback(s1)
         s3 == [s2 EXCEPT !.fired = [from |-> t.from, stopped |-> t.stopped,
                                     played |-> ~s2.isPlaying /\ hasBlock(s2, s2.idx)]]
     IN MonoDo(named(s3, "timer"))

MonoFetchFail(task) ==
  /\ BagIn(task, fetches)
  /\ LET s1 == [Begin EXCEPT !.fetches = @ (-) SetToBag({task})]
     IN MonoDo(named(playRejected(s1), "fetchFail"))

MonoEnded(h) ==
  /\ h \in Sounding(audios)
  /\ LET r == audioEnded(Begin, h)
     IN MonoDo(named(IF r.l.live THEN playResolved(r.s1, r.l) ELSE r.s1, "ended"))

NextMono ==
  \/ MonoHandlePlay
  \/ MonoHandlePause
  \/ MonoHandleStop
  \/ MonoHandlePrevious
  \/ MonoHandleNext
  \/ \E f \in Folders : SessionFolderEffect(f)
  \/ \E t \in BagToSet(timers) : MonoTimerFire(t)
  \/ \E task \in BagToSet(fetches) : FetchOk(task)
  \/ \E task \in BagToSet(fetches) : MonoFetchFail(task)
  \/ \E h \in 1..Len(audios) : MonoEnded(h)

SpecMono == Init /\ [][NextMono]_vars

\* ---------------------------------------- the AudioService on its own (SpecService)
\* In both players play() calls playAudioFromSession only when the sessionFolder
\* prop is set, and the session effect has then given the same folder to the
\* service.  The methods of AudioService are public: here a caller awaits any of
\* the three play methods as play() does (try / catch / finally), whatever the
\* service's session folder is.  The service is followed from construction for as
\* long as setSessionFolder has not been called: the page was opened without a
\* session parameter and the prop stays empty.
InitService == Init /\ sessionFolder = None

Paths == {"url", "session", "synth"}

PlayVia(path) ==
  /\ hasBlock(St, currentBlockIndex) /\ ~isPlaying
  /\ path = "url" => audioFileUrl(St, currentBlockIndex) # None
  /\ path = "session" => getCurrentBlock(St, currentBlockIndex).audio_file # None
  /\ Do(named(autoPlayEffect(playVia(Begin, path)), "play"))

NextService ==
  \/ \E path \in Paths : PlayVia(path)
  \/ Pause
  \/ HandleStop
  \/ HandlePrevious
  \/ HandleNext
  \/ \E t \in BagToSet(timers) : TimerFire(t)
  \/ \E task \in BagToSet(fetches) : FetchOk(task)
  \/ \E task \in BagToSet(fetches) : FetchFail(task)
  \/ \E h \in 1..Len(audios) : Ended(h)

SpecService == InitService /\ [][NextService]_vars


\* ============================================================== properties

\* C1: in every reachable state at most one audio element is producing output.
C1_AtMostOneSounding == Cardinality(Sounding(audios)) <= 1

\* C2: right after setSessionFolder(f) returns the cache is empty, no element is
\* producing output and AudioService.isPlaying() is false.
C2_SetSessionFolderClears ==
  lastOp = "setSessionFolder" =>
    /\ getCacheSize(St) = 0
    /\ Sounding(audios) = {}
    /\ ~svcIsPlaying(St)

\* C3: a block with an audio_files entry and a session file, played with a session
\* folder set, is resolved from the audio_files URL: the element started is the one
\* of that URL and no synthesis request is made.
C3_UrlBeforeSession ==
  (/\ lastRes.path # "none"
   /\ audioFileUrl(St, lastRes.idx) # None
   /\ getCurrentBlock(St, lastRes.idx).audio_file # None
   /\ lastRes.folder # None)
  => /\ lastRes.path = "url"
     /\ ~lastRes.fetched
     /\ lastRes.handle # 0
     /\ audios[lastRes.handle].src = fullAudioUrl(audioFileUrl(St, lastRes.idx))

C3_Witness ==
  /\ lastRes.path = "url"
  /\ lastRes.folder # None
  /\ getCurrentBlock(St, lastRes.idx).audio_file # None
  /\ currentAudio = lastRes.handle
  /\ currentAudio # 0

\* C4: between two cache clears every resolution of one key uses the same element:
\* no two elements made since the last clear have the same source.
C4_OneHandlePerKey ==
  \A g, h \in 1..Len(audios) :
    (g # h /\ ~audios[g].stale /\ ~audios[h].stale) => audios[g].src # audios[h].src

\* C5: no synthesis request is issued for a text while one for the same text is
\* outstanding: at most one generateAudio call per text is in flight.
C5_OneFetchPerKey ==
  \A a \in BagToSet(fetches) :
    /\ CopiesIn(a, fetches) = 1
    /\ \A b \in BagToSet(fetches) : a.text = b.text => a = b


\* C6: a manual next() taken while a resource is playing leaves isPlaying, isPaused
\* and isLoading false and no element producing output.
C6_NextCancelsPlayback ==
  [][(isPlaying /\ Sounding(audios) # {} /\ lastOp' = "handleNext")
       => (~isPlaying' /\ ~isPaused' /\ ~isLoading' /\ Sounding(audios') = {})]_vars

\* C7: an auto-advance timer scheduled by a completion at index 0 and followed by
\* stop() never takes effect: when it fires the index does not move and play() is
\* not invoked.
C7_StopCancelsAdvance ==
  [][(lastOp' = "timer" /\ fired'.from = 0 /\ fired'.stopped)
       => (currentBlockIndex' = currentBlockIndex /\ ~fired'.played)]_vars

\* C8: previous() at index 0 leaves the index at 0, the flags false and no element
\* producing output.
C8_PreviousAtZero ==
  [][(currentBlockIndex = 0 /\ lastOp' = "handlePrevious")
       => (/\ currentBlockIndex' = 0
           /\ ~isPlaying' /\ ~isPaused' /\ ~isLoading'
           /\ Sounding(audios') = {})]_vars

\* C9: currentIndex stays within [0, len(script)-1], so the current block exists.
C9_IndexInRange == hasBlock(St, currentBlockIndex)

\* C10: the synthesis cache is keyed by the narration text: a block resolved by
\* synthesis is a cache hit exactly when an element synthesized from the same text
\* is cached, whatever index it was made for; a hit reuses that element and asks
\* the backend nothing, a miss asks the backend.
C10_KeyedByText ==
  lastRes.path = "synth" =>
    /\ lastRes.hit <=> lastRes.had
    /\ lastRes.hit =>
         /\ ~lastRes.fetched
         /\ audios[lastRes.handle].src
              = ttsAudioUrl(getCurrentBlock(St, lastRes.idx).markdown)
    /\ ~lastRes.hit => lastRes.fetched

\* block 2 is played with the texts of blocks 0 and 1 cached: it reuses the element
\* of its own text, the one block 0 has too, while the other text has its own entry
C10_Witness ==
  /\ scriptData = DocSynth
  /\ lastRes.path = "synth"
  /\ lastRes.idx = 2
  /\ lastRes.hit
  /\ audios[lastRes.handle].src = ttsAudioUrl(getCurrentBlock(St, 0).markdown)
  /\ getCacheSize(St) = 2

\* C11: a handle made for the session before the last setSessionFolder (an element
\* dropped by the clear, or the element of a synthesis request that was in flight
\* at the clear) is never the current audio and never in the cache again.
C11_NoStaleHandleReachable ==
  \A h \in 1..Len(audios) :
    audios[h].stale => /\ currentAudio # h
                       /\ \A k \in DOMAIN audioCache : audioCache[k] # h

\* C12: play() invoked while the controller is Loading (isLoading with the
\* resolution it asked for still outstanding) or Playing starts no resolution,
\* starts no resource and changes no session flag.
C12_PlayOnlyWhenIdle ==
  [][(lastOp' = "play" /\ (isPlaying \/ (isLoading /\ fetches # EmptyBag)))
       => (/\ lastRes'.path = "none"
           /\ audios' = audios /\ currentAudio' = currentAudio /\ fetches' = fetches
           /\ isPlaying' = isPlaying /\ isPaused' = isPaused
           /\ isLoading' = isLoading /\ error' = error)]_vars

\* C13: pause() from Playing gives isPlaying false and isPaused true and keeps the
\* element current at its position; a following play() that starts the same
\* resource again resumes output from that position, not from zero.
C13_PauseResumes ==
  [][/\ (/\ isPlaying /\ currentAudio # 0 /\ lastOp' = "pause")
          => (/\ ~isPlaying' /\ isPaused'
              /\ currentAudio' # 0
              /\ audios'[currentAudio'].paused
              /\ audios'[currentAudio'].src = audios[currentAudio].src
              /\ audios'[currentAudio'].time = audios[currentAudio].time)
     /\ (/\ isPaused /\ ~isPlaying /\ currentAudio # 0
         /\ audios[currentAudio].paused /\ audios[currentAudio].time = "mid"
         /\ lastOp' = "play" /\ lastRes'.handle # 0
         /\ audios'[lastRes'.handle].src = audios[currentAudio].src)
          => audios'[lastRes'.handle].from = "mid"]_vars

\* C14: stop() (called by handleStop, handlePrevious and handleNext) in any state
\* leaves isPlaying, isPaused and isLoading false and the error cleared, the element
\* that was current paused at position zero, and no element producing output.
C14_StopGoesIdle ==
  [][lastOp' \in {"handleStop", "handlePrevious", "handleNext"}
       => (/\ ~isPlaying' /\ ~isPaused' /\ ~isLoading' /\ error' = FALSE
           /\ currentAudio' = 0
           /\ \A k \in DOMAIN audioCache \cap DOMAIN audioCache' :
                 audioCache[k] = currentAudio
                   => (/\ audios'[audioCache'[k]].paused
                       /\ audios'[audioCache'[k]].time = "start")
           /\ Sounding(audios') = {})]_vars

\* C15: when the current element signals its end while the controller is Playing
\* (and no auto-play intent is pending), the controller is Idle afterwards:
\* isPlaying, isPaused and isLoading false, no current element, no element
\* producing output; and onBlockComplete was called.
C15_EndGoesIdle ==
  [][(lastOp' = "ended" /\ lastEnd'.current /\ isPlaying /\ ~shouldAutoPlay)
       => (/\ ~isPlaying' /\ ~isPaused' /\ ~isLoading'
           /\ currentAudio' = 0
           /\ lastEnd'.complete
           /\ Sounding(audios') = {})]_vars

\* C16: every element producing output plays at the playback speed last set:
\* the current one at once, and any element started later, the one of a
\* resolution that was in flight at the change included.
C16_RateApplies == \A h \in Sounding(audios) : audios[h].rate = playbackSpeed

\* C17: when the resolution of a play() fails, the step ends with the error set and
\* isPlaying, isPaused and isLoading false, onBlockComplete is not called, no
\* auto-advance is scheduled and no new resolution or play attempt is made.
C17_FailureGoesToError ==
  [][lastOp' = "fetchFail"
       => (/\ error' /\ ~isPlaying' /\ ~isPaused' /\ ~isLoading'
           /\ ~lastEnd'.complete
           /\ BagCardinality(timers') <= BagCardinality(timers)
           /\ lastRes'.path = "none")]_vars

C19_SessionWithoutFolderFails ==
  [][(lastOp' = "play" /\ lastRes'.path = "session" /\ svcSessionFolder = None)
       => (/\ error' /\ ~isPlaying' /\ ~isPaused' /\ ~isLoading'
           /\ DOMAIN audioCache' = DOMAIN audioCache
           /\ Len(audios') <= Len(audios)
           /\ ~lastRes'.fetched /\ lastRes'.handle = 0
           /\ currentAudio' = 0
           /\ Cardinality(Sounding(audios')) <= Cardinality(Sounding(audios)))]_vars

\* the call was made with a URL element already cached
C19_Witness ==
  /\ lastOp = "play" /\ lastRes.path = "session" /\ svcSessionFolder = None
  /\ error /\ ~isPlaying
  /\ getCacheSize(St) = 1

\* C20: every play() takes exactly one path, by the order URL, session file,
\* synthesis: with an audio_files entry it starts the element of that URL and makes
\* no synthesis request; otherwise, with a session folder and a session file, it
\* starts the element of the file under the session's audio directory; otherwise it
\* resolves the block's narration text, by a request or from the cache.
C20_OnePathByOrder ==
  LET i == lastRes.idx
      url == audioFileUrl(St, i)
      file == getCurrentBlock(St, i).audio_file
      text == getCurrentBlock(St, i).markdown
      started(src) == /\ ~lastRes.fetched
                      /\ lastRes.handle # 0
                      /\ audios[lastRes.handle].src = src
  IN lastRes.path # "none" =>
       CASE url # None ->
              lastRes.path = "url" /\ started(fullAudioUrl(url))
         [] url = None /\ lastRes.folder # None /\ file # None ->
              lastRes.path = "session" /\ started(sessionAudioUrl(St, file))
         [] OTHER ->
              /\ lastRes.path = "synth"
              /\ \/ started(ttsAudioUrl(text))
                 \/ /\ lastRes.fetched /\ lastRes.handle = 0
                    /\ \E task \in BagToSet(fetches) : task.text = text /\ task.l.idx = i

\* block 1 of DocFiles has a session file and no URL
C20_Witness ==
  /\ lastRes.path = "session" /\ lastRes.idx = 1
  /\ audioFileUrl(St, 1) = None
  /\ currentAudio # 0 /\ currentAudio = lastRes.handle
  /\ audios[currentAudio].src = sessionAudioUrl(St, getCurrentBlock(St, 1).audio_file)

\* C21: the index changes only with playback stopped. A manual handler stops
\* before it changes the index (the state after the step is the state of the
\* change); the timer callback changes the index in the state it fires in. In
\* that state no element produces output and isPlaying, isPaused and isLoading
\* are false.
C21_IndexChangesWhenStopped ==
  [][currentBlockIndex' # currentBlockIndex
       => IF lastOp' = "timer"
          THEN ~isPlaying /\ ~isPaused /\ ~isLoading /\ Sounding(audios) = {}
          ELSE ~isPlaying' /\ ~isPaused' /\ ~isLoading' /\ Sounding(audios') = {}]_vars

\* C22: audio work started for an earlier block has no effect once the index has
\* moved: every element producing output was started by the play() call of the
\* current index, and a completion is signalled only for the current index.
C22_NoWorkOfEarlierBlock ==
  /\ \A h \in Sounding(audios) : audios[h].onended.idx = currentBlockIndex
  /\ lastEnd.complete => lastEnd.idx = currentBlockIndex

\* C23: the completion callback is invoked exactly once for the play() call whose
\* element played to its end (one call of onBlockComplete, so at most one timer
\* more), and never for a play() call the navigation has left behind: the call
\* that completes was made for the current index.
C23_OneCompletionPerPlay ==
  [][lastOp' = "ended"
       => (/\ lastEnd'.complete
           /\ BagCardinality(timers') <= BagCardinality(timers) + 1
           /\ lastEnd'.idx = currentBlockIndex)]_vars

\* C24: isLoading is true only while a resolution is in flight: in no reachable
\* state is isLoading true while the service has a current element, playing or
\* paused.
C24_LoadingNotPlaying == ~(isLoading /\ currentAudio # 0)

\* C25: a natural completion while autoPlay is off, or at the last index, starts
\* no timer, leaves the index where it is and raises no auto-play intent.
C25_NoAdvanceWhenOffOrLast ==
  [][(/\ lastOp' = "ended" /\ lastEnd'.complete
      /\ (~autoPlay \/ currentBlockIndex = scriptLength(St) - 1))
       => (/\ timers' = timers
           /\ currentBlockIndex' = currentBlockIndex
           /\ ~shouldAutoPlay')]_vars

\* C26: a manual next() or previous() cancels the pending auto-advance timer: no
\* timer is pending after the manual step, and a timer that was pending at a
\* stop() never moves the index or starts playback when it fires.
C26_ManualStepCancelsTimer ==
  [][/\ lastOp' \in {"handleNext", "handlePrevious"} => timers' = EmptyBag
     /\ (lastOp' = "timer" /\ fired'.stopped)
          => (currentBlockIndex' = currentBlockIndex /\ ~fired'.played)]_vars

\* C27: a timer that fires when the index is no longer the one whose completion
\* scheduled it is a no-op: the index stays, no intent is raised or consumed and
\* no play() is made.
C27_LateTimerIsNoOp ==
  [][(lastOp' = "timer" /\ fired'.from # currentBlockIndex)
       => (/\ currentBlockIndex' = currentBlockIndex
           /\ shouldAutoPlay' = shouldAutoPlay
           /\ ~fired'.played
           /\ lastRes'.path = "none")]_vars

\* C28: at most one auto-advance timer is pending at any time.
C28_OneTimerPending == BagCardinality(timers) <= 1

\* C29: after the player has unmounted nothing acts any more: no element is
\* producing output and no auto-advance timer is pending.
C29_NothingActsAfterTeardown ==
  ~mounted => (Sounding(audios) = {} /\ timers = EmptyBag)

\* C30: a failed synthesis request makes its play() fail with the error set (it
\* is still set after the step unless the auto-play effect starts the next play()
\* in the same step, which clears it), adds no cache entry for a narration text,
\* and leaves every cache entry there was in place with the element it had.
C30_FailureKeepsCache ==
  [][lastOp' = "fetchFail"
       => (/\ error' \/ lastRes'.path # "none"
           /\ ~lastEnd'.complete
           /\ \A k \in DOMAIN audioCache :
                /\ k \in DOMAIN audioCache'
                /\ audios'[audioCache'[k]].src = audios[audioCache[k]].src
                /\ audios'[audioCache'[k]].stale = audios[audioCache[k]].stale
           /\ \A k \in DOMAIN audioCache' \ DOMAIN audioCache :
                \A i \in 0..(scriptLength(St) - 1) :
                  k # cacheKey(getCurrentBlock(St, i).markdown))]_vars

\* the request for the text of block 1 failed with the text of block 0 cached
C30_Witness ==
  /\ lastOp = "fetchFail" /\ error
  /\ scriptData = DocSynth /\ currentBlockIndex = 1
  /\ cacheHas(St, cacheKey(getCurrentBlock(St, 0).markdown))
  /\ ~cacheHas(St, cacheKey(getCurrentBlock(St, 1).markdown))
  /\ fetches = EmptyBag

C32_Rest ==
  /\ currentBlockIndex = scriptLength(St) - 1
  /\ ~isPlaying /\ ~isPaused /\ ~isLoading /\ ~error
  /\ Sounding(audios) = {} /\ fetches = EmptyBag /\ timers = EmptyBag

C32_UnattendedRunCompletes ==
  /\ [][(~Pristine' /\ (currentBlockIndex' # currentBlockIndex \/ lastRes'.path # "none"))
          => (/\ lastRes'.path # "none"
              /\ lastRes'.idx = currentBlockIndex'
              /\ IF lastOp' = "play"
                 THEN Pristine /\ currentBlockIndex' = 0
                 ELSE /\ lastOp' = "timer"
                      /\ currentBlockIndex' = currentBlockIndex + 1
                      /\ fired'.from = currentBlockIndex)]_vars
  /\ [](~Pristine => <>[]C32_Rest)

\* the run has played the three blocks and rests at the last one
C32_Witness ==
  /\ C32_Rest /\ ~Pristine
  /\ scriptData = DocSynth
  /\ lastOp = "ended" /\ lastEnd.idx = 2 /\ lastEnd.complete

\* C33: useAutoPlay schedules an advance only in response to a natural
\* completion: a step that sets the timer (none was pending, one is) is the end
\* of a block; the mount, pause(), stop() and a failed play() set none.
C33_AdvanceOnlyAfterCompletion ==
  [][(timers = EmptyBag /\ timers' # EmptyBag) => lastOp' = "ended"]_vars

\* C34: the flags agree with the service: while isPlaying is false no element is
\* producing output.
C34_SilentWhenNotPlaying == ~isPlaying => Sounding(audios) = {}

\* C35: every element producing output is the one AudioService.currentAudio
\* refers to.
C35_SoundingIsCurrent == \A h \in Sounding(audios) : h = currentAudio

\* C36: a resolution that ended in failure leaves no cache entry for its key: no
\* cached element is one that failed, so a retry does not get the failed handle.
C36_NoFailedHandleCached ==
  \A k \in DOMAIN audioCache : ~audios[audioCache[k]].failed

\* C37: handleStop from any state and index leaves the index at 0, the auto-play
\* intent false, isPlaying, isPaused and isLoading false, the error cleared, no
\* current element and no element producing output, and changes neither the
\* playback speed nor the Auto-play setting.
C37_StopControlResets ==
  [][lastOp' = "handleStop"
       => (/\ currentBlockIndex' = 0
           /\ ~shouldAutoPlay'
           /\ ~isPlaying' /\ ~isPaused' /\ ~isLoading' /\ ~error'
           /\ currentAudio' = 0
           /\ Sounding(audios') = {}
           /\ playbackSpeed' = playbackSpeed
           /\ autoPlay' = autoPlay)]_vars

\* C38: an auto-play intent does not outlive the step that raised it: a step
\* taken while the intent is set starts no playback, and a manual navigation, a
\* stop or a pause taken then leaves the intent cleared.
C38_IntentDoesNotOutlive ==
  [][shouldAutoPlay
       => (/\ lastRes'.idx = -1
           /\ (lastOp' \in {"pause", "handleStop", "handlePrevious", "handleNext"}
                 => ~shouldAutoPlay'))]_vars

\* C39: once the Auto-play setting is off, no timer callback changes the index,
\* raises an auto-play intent or starts playback.
C39_OffPreventsAdvance ==
  [][(lastOp' = "timer" /\ ~autoPlay)
       => (/\ currentBlockIndex' = currentBlockIndex
           /\ ~shouldAutoPlay'
           /\ lastRes'.idx = -1)]_vars

====
